---- MODULE Spec2Model ----
(***************************************************************************)
(* Model of cache_data.py: the sportsdata.io cache population workflow.     *)
(*                                                                         *)
(* A SeasonId such as "2023PRE" is the record [year |-> 2023, type |->     *)
(* "PRE"].  The test  str(THIS_YEAR) in season  is, for 4-digit years, the  *)
(* equality of the year component.  A cache directory is the set of the    *)
(* keys of the files it holds; odds_data/current_week.csv is a slot whose  *)
(* content is the stamp (season, week, run) of the fetch that filled it.   *)
(* An HTTP 200 answer to a Cache Writer is taken to be well formed; what   *)
(* the Odds Flattener does with an answer is modelled on its own.          *)
(*                                                                         *)
(* Spec        : the program run again and again on the cache it leaves,   *)
(*               one step per check of cache_old_data, per Cache Writer    *)
(*               call of the Driver and per week of cache_ats_data.        *)
(* SpecWriter  : cache_odds_data and cache_scores_data called with any     *)
(*               SeasonId.                                                 *)
(* SpecFlatten : lines 137-167 applied to one week's answer.               *)
(***************************************************************************)
EXTENDS Integers, Sequences, FiniteSets, TLC

\* ------------------------------------------------------------------ bounds
MaxRuns == 2
MaxFailures == 1
MaxCalls == 1
MaxGames == 2

\* Values the Season/Week Resolver may produce for a process.
Years == {2023, 2024}
CurrentWeeks == {0, 2, 18}
WriterYears == {2022, 2024}
WriterWeeks == {0, 3, 19}

\* --------------------------------------------------------- program constants
OK == 200
PreFirstWeek == 0
PreStopWeek == 4
PostFirstWeek == 1
PostStopWeek == 5
RegFirstWeek == 1
RegStopWeek == 18
AtsWindow == 10
PreLastWeek == 3

SeasonTypes == {"PRE", "REG", "POST"}
SeasonId(y, t) == [year |-> y, type |-> t]

seasons_to_cache ==
  << SeasonId(2023, "PRE"), SeasonId(2022, "POST"),
     SeasonId(2022, "REG"), SeasonId(2022, "PRE") >>

NoFile == [season |-> SeasonId(0, "none"), week |-> 0, run |-> 0]
NoCall == [kind |-> "none", season |-> SeasonId(0, "none"), log |-> << >>]
NoDate == [year |-> 0, month |-> 0, day |-> 0]

VARIABLES
  THIS_YEAR,        \* module constant, line 110
  THIS_WEEK,        \* module constant, line 111
  season_year,      \* __main__ local, line 309
  schedule_data,    \* seasons s with schedule_data/<s>.csv
  odds_data,        \* keys <<s, w>> with odds_data/<s>_<w>.csv
  scores_data,      \* keys <<s, w>> with scores_data/<s>_<w>.csv
  current_week_csv, \* stamp held by odds_data/current_week.csv, or NoFile
  ats_json,         \* run that wrote ats_data/ATS_last_10_weeks.json (0: no file);
                    \* the document is ats.weeks_data of that run
  pc,               \* position of the process
  old,              \* cache_old_data position: [i, week]
  ats,              \* cache_ats_data locals
  call,             \* the Cache Writer invocation made by the last step
  run,              \* number of processes started so far
  http,             \* GETs issued by the Cache Writers in this run
  non200,           \* non-200 answers received in this run
  fails,            \* non-200 answers over all runs (bounded by MaxFailures)
  calls,            \* writer calls made (writer specification only)
  complete_at_start, \* every backfill target existed when this run started
  week_json,        \* a week's game list as the odds endpoint returns it
  flat,             \* what the Odds Flattener made of it
  today             \* datetime.now() of the calendar fallback (resolver
                    \* specification only)

vars == << THIS_YEAR, THIS_WEEK, season_year, schedule_data, odds_data,
           scores_data, current_week_csv, ats_json, pc, old, ats, call, run,
           http, non200, fails, calls, complete_at_start, week_json, flat,
           today >>

gameVars == << week_json, flat >>

\* ------------------------------------------------------------------ helpers
Range(lo, stop) == lo .. (stop - 1)

RECURSIVE FailSets(_, _)
\* The sets of at most k weeks of S: the requests that answer non-200.
FailSets(S, k) ==
  IF k <= 0 THEN {{}}
  ELSE LET prev == FailSets(S, k - 1)
       IN  prev \cup {p \cup {x} : p \in prev, x \in S}

\* The status of the GET for week w: 200, or a non-200 status (500 stands for
\* all of them: the code only tests status_code == 200).
Status(failing, w) == IF w \in failing THEN 500 ELSE OK

\* ------------------------------------------------------------- Odds Flattener
\* A JSON number is Num(v), JSON null is None; NaN is what pandas puts for a
\* null in a numeric column.  A point spread is held in half-points (-3.5 is
\* Num(-7)), so that a score s counts 2 * s against it.
Num(v) == [kind |-> "num", v |-> v]
None == [kind |-> "None", v |-> 0]
NaN == [kind |-> "NaN", v |-> 0]

\* Line 141.
accepted_books ==
  {"Consensus", "DraftKings", "FanDuel", "PointsBet", "BetMGM", "Caesars"}

Quote(book, spread) == [Sportsbook |-> book, HomePointSpread |-> spread]

\* Line 137: pd.DataFrame(json.loads(response.text)) on one score column: a
\* column of nulls alone keeps them as None (dtype object), a null among
\* numbers becomes NaN (dtype float64).
frame_value(column, i) ==
  IF \A j \in 1 .. Len(column) : column[j] = None THEN None
  ELSE IF column[i] = None THEN NaN
  ELSE column[i]

\* Line 137: the rows of week_data.
DataFrame(games) ==
  LET home == [i \in 1 .. Len(games) |-> games[i].HomeTeamScore]
      away == [i \in 1 .. Len(games) |-> games[i].AwayTeamScore]
  IN  [i \in 1 .. Len(games) |->
         [games[i] EXCEPT !.HomeTeamScore = frame_value(home, i),
                          !.AwayTeamScore = frame_value(away, i)]]

\* Mutant: a game in progress taken for a finished one.
is_game_finished_started(game_data) ==
  game_data.Status \in {"Final", "InProgress"}

\* Lines 56-69.
is_game_finished(game_data) == game_data.Status = "Final"

\* Lines 88-94: the HomePointSpread of the first Consensus quote, else None.
consensus_spread(odds) ==
  LET hits == {i \in 1 .. Len(odds) : odds[i].Sportsbook = "Consensus"}
  IN  IF hits = {} THEN None
      ELSE odds[CHOOSE i \in hits : \A j \in hits : i <= j].HomePointSpread

\* Mutant: the first comparison made >=, so that a tie goes to the home team.
compute_covered_team_ge(game_data) ==
  LET home_score == game_data.HomeTeamScore
      away_score == game_data.AwayTeamScore
      home_spread == consensus_spread(game_data.PregameOdds)
  IN  IF home_spread = None \/ home_score = None \/ away_score = None
      THEN "No Data"
      ELSE IF home_score = NaN \/ away_score = NaN THEN "Push"
      ELSE IF 2 * home_score.v + home_spread.v >= 2 * away_score.v
      THEN game_data.HomeTeamName
      ELSE game_data.AwayTeamName

\* Lines 71-107.  With a NaN score adjusted_home_score is NaN, both
\* comparisons are false and the else branch returns "Push".
compute_covered_team(game_data) ==
  LET home_score == game_data.HomeTeamScore
      away_score == game_data.AwayTeamScore
      home_spread == consensus_spread(game_data.PregameOdds)
  IN  IF home_spread = None \/ home_score = None \/ away_score = None
      THEN "No Data"
      ELSE IF home_score = NaN \/ away_score = NaN THEN "Push"
      ELSE IF 2 * home_score.v + home_spread.v > 2 * away_score.v
      THEN game_data.HomeTeamName
      ELSE IF 2 * home_score.v + home_spread.v < 2 * away_score.v
      THEN game_data.AwayTeamName
      ELSE "Push"

\* Lines 162-165: the CoveredTeam column.
covered_team_column(row) ==
  IF is_game_finished(row) THEN compute_covered_team(row) ELSE "Pending"

\* Lines 146-148: the quotes of the accepted sportsbooks, in order.
filter_books(odds) ==
  SelectSeq(odds, LAMBDA q : q.Sportsbook \in accepted_books)

\* Lines 145-159: what stops the flattening with an exception: a week without
\* games (pd.concat of an empty list), a game whose PregameOdds is empty (the
\* frame has no Sportsbook column), a week none of whose games keeps a quote
\* (the grouping of an empty frame yields no Odds column).
flatten_raises(games) ==
  \/ Len(games) = 0
  \/ \E i \in 1 .. Len(games) : Len(games[i].PregameOdds) = 0
  \/ \A i \in 1 .. Len(games) : filter_books(games[i].PregameOdds) = << >>

\* Line 140.
columns_to_keep ==
  {"Sportsbook", "HomeMoneyLine", "AwayMoneyLine", "DrawMoneyLine",
   "HomePointSpread", "AwayPointSpread", "HomePointSpreadPayout",
   "AwayPointSpreadPayout", "OverUnder", "OverPayout", "UnderPayout",
   "OddType"}

\* Lines 148-154: the record x.to_dict('records') makes of a kept quote: the
\* columns selected at line 148 and, when groupby.apply hands the grouping
\* column to the function (pandas before 3.0 does, later versions do not),
\* the 'index' column added at line 149.
odds_record(quote, with_key) ==
  [Sportsbook |-> quote.Sportsbook,
   HomePointSpread |-> quote.HomePointSpread,
   columns |-> IF with_key THEN columns_to_keep \cup {"index"}
               ELSE columns_to_keep]

\* The Odds value of a row without a group.
NoOdds == << [Sportsbook |-> "NaN", HomePointSpread |-> NaN, columns |-> {}] >>

\* Lines 153-159: the Odds value of row i: its group's quote list; a row
\* without a group gets no value from the left merge.
odds_column(games, i, with_key) ==
  LET kept == filter_books(games[i].PregameOdds)
  IN  IF kept = << >> THEN NoOdds
      ELSE [j \in 1 .. Len(kept) |-> odds_record(kept[j], with_key)]

\* Lines 137-167: the rows cache_odds_data persists for a week.
flatten(games, with_key) ==
  LET week_data == DataFrame(games)
  IN  IF flatten_raises(games) THEN [raised |-> TRUE, rows |-> << >>]
      ELSE [raised |-> FALSE,
            rows |-> [i \in 1 .. Len(games) |->
              [HomeTeamName |-> week_data[i].HomeTeamName,
               AwayTeamName |-> week_data[i].AwayTeamName,
               HomeTeamScore |-> week_data[i].HomeTeamScore,
               AwayTeamScore |-> week_data[i].AwayTeamScore,
               Status |-> week_data[i].Status,
               Odds |-> odds_column(games, i, with_key),
               CoveredTeam |-> covered_team_column(week_data[i])]]]

NotFlattened == [raised |-> FALSE, rows |-> << >>]

\* ------------------------------------------------------------ Cache Writers
\* Mutant: the preseason taken to start at week 1, like the postseason.
odds_week_range_pre1(season) ==
  IF season.type = "PRE" \/ season.type = "POST"
  THEN [lo |-> PostFirstWeek, stop |-> PostStopWeek]
  ELSE IF season.year = THIS_YEAR
       THEN [lo |-> RegFirstWeek, stop |-> THIS_WEEK + 1]
       ELSE [lo |-> RegFirstWeek, stop |-> RegStopWeek]

\* Lines 123-131: the week range of cache_odds_data, as range(lo, stop).
odds_week_range(season) ==
  IF season.type = "PRE" THEN [lo |-> PreFirstWeek, stop |-> PreStopWeek]
  ELSE IF season.type = "POST" THEN [lo |-> PostFirstWeek, stop |-> PostStopWeek]
  ELSE IF season.year = THIS_YEAR
       THEN [lo |-> RegFirstWeek, stop |-> THIS_WEEK + 1]
       ELSE [lo |-> RegFirstWeek, stop |-> RegStopWeek]

\* Mutant: the scores range of the current season made inclusive, as the
\* odds range is.
scores_week_range_inclusive(season) ==
  IF season.type = "PRE" THEN [lo |-> PreFirstWeek, stop |-> PreStopWeek]
  ELSE IF season.type = "POST" THEN [lo |-> PostFirstWeek, stop |-> PostStopWeek]
  ELSE IF season.year = THIS_YEAR
       THEN [lo |-> RegFirstWeek, stop |-> THIS_WEEK + 1]
       ELSE [lo |-> RegFirstWeek, stop |-> RegStopWeek]

\* Lines 184-192: the week range of cache_scores_data.
scores_week_range(season) ==
  IF season.type = "PRE" THEN [lo |-> PreFirstWeek, stop |-> PreStopWeek]
  ELSE IF season.type = "POST" THEN [lo |-> PostFirstWeek, stop |-> PostStopWeek]
  ELSE IF season.year = THIS_YEAR
       THEN [lo |-> RegFirstWeek, stop |-> THIS_WEEK]
       ELSE [lo |-> RegFirstWeek, stop |-> RegStopWeek]

\* Lines 134-174: one iteration of the loop of cache_odds_data.  st holds the
\* odds directory, the current_week.csv slot and the log of the invocation.
odds_week(season, w, status, st) ==
  IF status = OK
  THEN IF THIS_WEEK # w
       THEN [st EXCEPT !.odds = @ \cup {<<season, w>>},
                       !.log = Append(@, [week |-> w, status |-> status,
                                          file |-> "dated"])]
       ELSE [st EXCEPT !.slot = [season |-> season, week |-> w, run |-> run],
                       !.log = Append(@, [week |-> w, status |-> status,
                                          file |-> "current_week"])]
  ELSE [st EXCEPT !.log = Append(@, [week |-> w, status |-> status,
                                     file |-> "none"])]

\* Lines 195-202: one iteration of the loop of cache_scores_data.
scores_week(season, w, status, st) ==
  IF status = OK
  THEN [st EXCEPT !.scores = @ \cup {<<season, w>>},
                  !.log = Append(@, [week |-> w, status |-> status,
                                     file |-> "dated"])]
  ELSE [st EXCEPT !.log = Append(@, [week |-> w, status |-> status,
                                     file |-> "none"])]

RECURSIVE odds_loop_abort(_, _, _, _, _)
\* Mutant: the loop left at the first non-200 answer.
odds_loop_abort(season, w, stop, failing, st) ==
  IF w >= stop THEN st
  ELSE IF Status(failing, w) # OK
  THEN odds_week(season, w, Status(failing, w), st)
  ELSE odds_loop_abort(season, w + 1, stop, failing,
                       odds_week(season, w, Status(failing, w), st))

RECURSIVE odds_loop(_, _, _, _, _)
\* Line 133: for current_week in week_range.
odds_loop(season, w, stop, failing, st) ==
  IF w >= stop THEN st
  ELSE odds_loop(season, w + 1, stop, failing,
                 odds_week(season, w, Status(failing, w), st))

RECURSIVE scores_loop(_, _, _, _, _)
\* Line 194: for current_week in week_range.
scores_loop(season, w, stop, failing, st) ==
  IF w >= stop THEN st
  ELSE scores_loop(season, w + 1, stop, failing,
                   scores_week(season, w, Status(failing, w), st))

NonOK(log) == Cardinality({i \in 1 .. Len(log) : log[i].status # OK})

\* Lines 115-174: cache_odds_data(season), the requests of the set `failing`
\* answering non-200.
cache_odds_data(season, failing) ==
  LET r == odds_week_range(season)
      st == odds_loop(season, r.lo, r.stop, failing,
                      [odds |-> odds_data, slot |-> current_week_csv,
                       log |-> << >>])
  IN  /\ odds_data' = st.odds
      /\ current_week_csv' = st.slot
      /\ call' = [kind |-> "odds", season |-> season, log |-> st.log]
      /\ http' = http + Len(st.log)
      /\ non200' = non200 + NonOK(st.log)
      /\ fails' = fails + NonOK(st.log)
      /\ UNCHANGED scores_data

\* Lines 176-202: cache_scores_data(season).
cache_scores_data(season, failing) ==
  LET r == scores_week_range(season)
      st == scores_loop(season, r.lo, r.stop, failing,
                        [scores |-> scores_data, log |-> << >>])
  IN  /\ scores_data' = st.scores
      /\ call' = [kind |-> "scores", season |-> season, log |-> st.log]
      /\ http' = http + Len(st.log)
      /\ non200' = non200 + NonOK(st.log)
      /\ fails' = fails + NonOK(st.log)
      /\ UNCHANGED << odds_data, current_week_csv >>

\* The response patterns the failure budget still allows for a range.
Failing(r) == FailSets(Range(r.lo, r.stop), MaxFailures - fails)

\* A non-200 answer the failure budget still allows for a single request.
Statuses == IF fails < MaxFailures THEN {OK, 500} ELSE {OK}

\* Lines 204-219: cache_schedule_data(season), the GET answering `status`.
cache_schedule_data(season, status) ==
  /\ schedule_data' = IF status = OK THEN schedule_data \cup {season}
                      ELSE schedule_data
  /\ http' = http + 1
  /\ non200' = non200 + (IF status = OK THEN 0 ELSE 1)
  /\ fails' = fails + (IF status = OK THEN 0 ELSE 1)

\* ------------------------------------------------------ Backfill Orchestrator
\* Lines 287-292: the week range cache_old_data checks.
old_week_range(season) ==
  IF season.type = "PRE" THEN [lo |-> PreFirstWeek, stop |-> PreStopWeek]
  ELSE IF season.type = "POST" THEN [lo |-> PostFirstWeek, stop |-> PostStopWeek]
  ELSE [lo |-> RegFirstWeek, stop |-> RegStopWeek]

\* Mutant: the check of line 295 never finds the file.
odds_exists_never(season, week) == FALSE

\* Mutant: the check of line 302 never finds the file.
scores_exists_never(season, week) == FALSE

\* Lines 281, 295, 302: os.path.exists on a cache file.
schedule_exists(season) == season \in schedule_data
odds_exists(season, week) == <<season, week>> \in odds_data
scores_exists(season, week) == <<season, week>> \in scores_data

OldSeason == seasons_to_cache[old.i]

\* Every file cache_old_data checks for exists.
AllTargetsPresent ==
  \A i \in 1 .. Len(seasons_to_cache) :
    LET s == seasons_to_cache[i]
        r == old_week_range(s)
    IN  /\ s \in schedule_data
        /\ \A w \in Range(r.lo, r.stop) :
             <<s, w>> \in odds_data /\ <<s, w>> \in scores_data

AtsIdle == [current_season_type |-> SeasonId(0, "none"), end_week |-> 0,
            start_week |-> 0, weeks_needed |-> 0, week |-> 0,
            weeks_data |-> << >>]

\* Lines 279-284: the schedule check of one season of seasons_to_cache.
OldSchedule ==
  /\ pc = "old_schedule"
  /\ IF ~schedule_exists(OldSeason)
     THEN \E status \in Statuses : cache_schedule_data(OldSeason, status)
     ELSE UNCHANGED << schedule_data, http, non200, fails >>
  /\ pc' = "old_odds"
  /\ old' = [old EXCEPT !.week = old_week_range(OldSeason).lo]
  /\ call' = NoCall
  /\ UNCHANGED << today, THIS_YEAR, THIS_WEEK, season_year, odds_data, scores_data,
                  current_week_csv, ats_json, ats, run, calls,
                  complete_at_start, week_json, flat >>

\* Lines 294-298: one iteration of the odds check loop (the step that finds
\* the loop exhausted moves on to the scores loop).
OldOdds ==
  /\ pc = "old_odds"
  /\ IF old.week >= old_week_range(OldSeason).stop
     THEN /\ pc' = "old_scores"
          /\ old' = [old EXCEPT !.week = old_week_range(OldSeason).lo]
          /\ call' = NoCall
          /\ UNCHANGED << odds_data, scores_data, current_week_csv, http,
                          non200, fails >>
     ELSE /\ pc' = pc
          /\ old' = [old EXCEPT !.week = @ + 1]
          /\ IF ~odds_exists(OldSeason, old.week)
             THEN \E failing \in Failing(odds_week_range(OldSeason)) :
                    cache_odds_data(OldSeason, failing)
             ELSE /\ call' = NoCall
                  /\ UNCHANGED << odds_data, scores_data, current_week_csv,
                                  http, non200, fails >>
  /\ UNCHANGED << today, THIS_YEAR, THIS_WEEK, season_year, schedule_data, ats_json,
                  ats, run, calls, complete_at_start, week_json, flat >>

\* Lines 301-305: one iteration of the scores check loop (the step that
\* finds the loop exhausted moves on to the next season, or returns).
OldScores ==
  /\ pc = "old_scores"
  /\ IF old.week >= old_week_range(OldSeason).stop
     THEN /\ IF old.i < Len(seasons_to_cache)
             THEN pc' = "old_schedule" /\ old' = [i |-> old.i + 1, week |-> 0]
             ELSE pc' = "reg_schedule" /\ old' = old
          /\ call' = NoCall
          /\ UNCHANGED << odds_data, scores_data, current_week_csv, http,
                          non200, fails >>
     ELSE /\ pc' = pc
          /\ old' = [old EXCEPT !.week = @ + 1]
          /\ IF ~scores_exists(OldSeason, old.week)
             THEN \E failing \in Failing(scores_week_range(OldSeason)) :
                    cache_scores_data(OldSeason, failing)
             ELSE /\ call' = NoCall
                  /\ UNCHANGED << odds_data, scores_data, current_week_csv,
                                  http, non200, fails >>
  /\ UNCHANGED << today, THIS_YEAR, THIS_WEEK, season_year, schedule_data, ats_json,
                  ats, run, calls, complete_at_start, week_json, flat >>

\* --------------------------------------------------------------------- Driver
\* Line 314.
season_type_reg == SeasonId(season_year, "REG")

\* Line 316.
RegSchedule ==
  /\ pc = "reg_schedule"
  /\ \E status \in Statuses : cache_schedule_data(season_type_reg, status)
  /\ pc' = "reg_odds"
  /\ call' = NoCall
  /\ UNCHANGED << today, THIS_YEAR, THIS_WEEK, season_year, odds_data, scores_data,
                  current_week_csv, ats_json, old, ats, run, calls,
                  complete_at_start, week_json, flat >>

\* Line 318.
RegOdds ==
  /\ pc = "reg_odds"
  /\ \E failing \in Failing(odds_week_range(season_type_reg)) :
       cache_odds_data(season_type_reg, failing)
  /\ pc' = "reg_scores"
  /\ UNCHANGED << today, THIS_YEAR, THIS_WEEK, season_year, schedule_data, ats_json,
                  old, ats, run, calls, complete_at_start, week_json, flat >>

\* Line 320.
RegScores ==
  /\ pc = "reg_scores"
  /\ \E failing \in Failing(scores_week_range(season_type_reg)) :
       cache_scores_data(season_type_reg, failing)
  /\ pc' = "ats_start"
  /\ UNCHANGED << today, THIS_YEAR, THIS_WEEK, season_year, schedule_data, ats_json,
                  old, ats, run, calls, complete_at_start, week_json, flat >>

\* ---------------------------------------------------------- ATS Summary Builder
\* Lines 221-234, called at line 323 with (season_type_reg, season_year);
\* end_week is a fresh answer of fetch_current_week.
ats_locals(current_season_type, end_week) ==
  [current_season_type |-> current_season_type, end_week |-> end_week,
   start_week |-> end_week - AtsWindow + 1, weeks_needed |-> AtsWindow,
   week |-> end_week, weeks_data |-> << >>]

AtsStart ==
  /\ pc = "ats_start"
  /\ \E ew \in CurrentWeeks : ats' = ats_locals(season_type_reg, ew)
  /\ pc' = "ats_for"
  /\ call' = NoCall
  /\ UNCHANGED << today, THIS_YEAR, THIS_WEEK, season_year, schedule_data, odds_data,
                  scores_data, current_week_csv, ats_json, old, run, http,
                  non200, fails, calls, complete_at_start, week_json, flat >>

\* Lines 248-253: the week-group appended for a week read from `source`.
week_group(type, week, source) ==
  [season_type |-> type, week |-> week,
   results |-> [season |-> source.season, week |-> source.week]]

\* Lines 237-257: one iteration of the for loop over range(end_week,
\* start_week - 1, -1).  Reading a current_week.csv that does not exist
\* raises FileNotFoundError, which nothing catches.
ats_week(a) ==
  LET type == a.current_season_type
      week == a.week
      next == IF week - 1 < a.start_week THEN "ats_switch" ELSE "ats_for"
  IN  IF ~odds_exists(type, week) /\ THIS_WEEK # week
      THEN [pc |-> next, ats |-> [a EXCEPT !.week = week - 1]]
      ELSE IF ~odds_exists(type, week) /\ current_week_csv = NoFile
      THEN [pc |-> "error", ats |-> a]
      ELSE LET source == IF odds_exists(type, week)
                         THEN [season |-> type, week |-> week]
                         ELSE current_week_csv
               data == Append(a.weeks_data, week_group(type, week, source))
           IN  IF a.weeks_needed - 1 = 0
               THEN [pc |-> "ats_switch",
                     ats |-> [a EXCEPT !.weeks_data = data,
                                       !.weeks_needed = 0]]
               ELSE [pc |-> next,
                     ats |-> [a EXCEPT !.weeks_data = data,
                                       !.weeks_needed = @ - 1,
                                       !.week = week - 1]]

AtsWeek ==
  /\ pc = "ats_for"
  /\ pc' = ats_week(ats).pc
  /\ ats' = ats_week(ats).ats
  /\ call' = NoCall
  /\ UNCHANGED << today, THIS_YEAR, THIS_WEEK, season_year, schedule_data, odds_data,
                  scores_data, current_week_csv, ats_json, old, run, http,
                  non200, fails, calls, complete_at_start, week_json, flat >>

\* Mutant: the switch to the preseason keeps end_week instead of setting 3.
ats_switch_keep_end(a, year) ==
  IF a.weeks_needed > 0
  THEN LET b == IF a.current_season_type.type = "REG"
                THEN [a EXCEPT !.current_season_type = SeasonId(year, "PRE")]
                ELSE IF a.current_season_type.type = "PRE"
                THEN [a EXCEPT !.weeks_needed = 0]
                ELSE a
           c == [b EXCEPT !.start_week = b.end_week - b.weeks_needed + 1,
                          !.week = b.end_week]
       IN  [pc |-> IF c.weeks_needed > 0 THEN "ats_for" ELSE "ats_dump",
            ats |-> c]
  ELSE [pc |-> "ats_dump", ats |-> a]

\* Mutant: a short preseason window does not end the walk.
ats_switch_repeat(a, year) ==
  IF a.weeks_needed > 0
  THEN LET b == IF a.current_season_type.type = "REG"
                THEN [a EXCEPT !.current_season_type = SeasonId(year, "PRE"),
                               !.end_week = PreLastWeek]
                ELSE a
           c == [b EXCEPT !.start_week = b.end_week - b.weeks_needed + 1,
                          !.week = b.end_week]
       IN  [pc |-> IF c.weeks_needed > 0 THEN "ats_for" ELSE "ats_dump",
            ats |-> c]
  ELSE [pc |-> "ats_dump", ats |-> a]

\* Lines 236, 259-266: after the for loop, the switch to the previous season
\* type and the test of the while loop.
ats_switch(a, year) ==
  IF a.weeks_needed > 0
  THEN LET b == IF a.current_season_type.type = "REG"
                THEN [a EXCEPT !.current_season_type = SeasonId(year, "PRE"),
                               !.end_week = PreLastWeek]
                ELSE IF a.current_season_type.type = "PRE"
                THEN [a EXCEPT !.weeks_needed = 0]
                ELSE a
           c == [b EXCEPT !.start_week = b.end_week - b.weeks_needed + 1,
                          !.week = b.end_week]
       IN  [pc |-> IF c.weeks_needed > 0 THEN "ats_for" ELSE "ats_dump",
            ats |-> c]
  ELSE [pc |-> "ats_dump", ats |-> a]

AtsSwitch ==
  /\ pc = "ats_switch"
  /\ pc' = ats_switch(ats, season_year).pc
  /\ ats' = ats_switch(ats, season_year).ats
  /\ call' = NoCall
  /\ UNCHANGED << today, THIS_YEAR, THIS_WEEK, season_year, schedule_data, odds_data,
                  scores_data, current_week_csv, ats_json, old, run, http,
                  non200, fails, calls, complete_at_start, week_json, flat >>

\* Lines 268-269, then line 325.
AtsDump ==
  /\ pc = "ats_dump"
  /\ ats_json' = run
  /\ pc' = "done"
  /\ call' = NoCall
  /\ UNCHANGED << today, THIS_YEAR, THIS_WEEK, season_year, schedule_data, odds_data,
                  scores_data, current_week_csv, old, ats, run, http, non200,
                  fails, calls, complete_at_start, week_json, flat >>

\* ------------------------------------------------------------------ processes
\* Lines 110-111 and 309: a process starts by resolving THIS_YEAR, THIS_WEEK
\* and season_year; each is an answer of the resolver endpoint or of the
\* calendar fallback.
Resolve ==
  /\ THIS_YEAR' \in Years
  /\ THIS_WEEK' \in CurrentWeeks
  /\ season_year' \in Years

Init ==
  /\ today = NoDate
  /\ THIS_YEAR \in Years
  /\ THIS_WEEK \in CurrentWeeks
  /\ season_year \in Years
  /\ schedule_data = {}
  /\ odds_data = {}
  /\ scores_data = {}
  /\ current_week_csv = NoFile
  /\ ats_json = 0
  /\ pc = "old_schedule"
  /\ old = [i |-> 1, week |-> 0]
  /\ ats = AtsIdle
  /\ call = NoCall
  /\ run = 1
  /\ http = 0
  /\ non200 = 0
  /\ fails = 0
  /\ calls = 0
  /\ complete_at_start = FALSE
  /\ week_json = << >>
  /\ flat = NotFlattened

\* The process has ended (normally or by an uncaught exception) and the
\* program is run again on the cache it left.
NextRun ==
  /\ pc \in {"done", "error"}
  /\ run < MaxRuns
  /\ Resolve
  /\ run' = run + 1
  /\ pc' = "old_schedule"
  /\ old' = [i |-> 1, week |-> 0]
  /\ ats' = AtsIdle
  /\ call' = NoCall
  /\ http' = 0
  /\ non200' = 0
  /\ complete_at_start' = AllTargetsPresent
  /\ UNCHANGED << today, schedule_data, odds_data, scores_data,
                  current_week_csv, ats_json, fails, calls, week_json, flat >>

Next ==
  \/ OldSchedule
  \/ OldOdds
  \/ OldScores
  \/ RegSchedule
  \/ RegOdds
  \/ RegScores
  \/ AtsStart
  \/ AtsWeek
  \/ AtsSwitch
  \/ AtsDump
  \/ NextRun

Spec == Init /\ [][Next]_vars

\* --------------------------------------------- the flattener on its own
\* The games and weeks the odds endpoint is taken to answer with.
Scores == {None, Num(17), Num(20)}
OddsLists ==
  { << >>,
    << Quote("Consensus", None) >>,
    << Quote("Consensus", Num(-7)) >>,
    << Quote("Consensus", Num(0)) >>,
    << Quote("Bovada", Num(0)) >>,
    << Quote("DraftKings", Num(0)), Quote("Consensus", Num(-7)) >> }
Games ==
  [HomeTeamName : {"HOME"}, AwayTeamName : {"AWAY"},
   HomeTeamScore : Scores, AwayTeamScore : Scores,
   Status : {"Final", "InProgress"}, PregameOdds : OddsLists]

RECURSIVE Weeks(_)
\* The game lists of 1 .. n games.
Weeks(n) ==
  IF n = 0 THEN {}
  ELSE Weeks(n - 1) \cup [1 .. n -> Games]

InitFlatten ==
  /\ today = NoDate
  /\ week_json \in Weeks(MaxGames)
  /\ flat = NotFlattened
  /\ THIS_YEAR = 2023
  /\ THIS_WEEK = 0
  /\ season_year = 2023
  /\ schedule_data = {}
  /\ odds_data = {}
  /\ scores_data = {}
  /\ current_week_csv = NoFile
  /\ ats_json = 0
  /\ pc = "flatten"
  /\ old = [i |-> 1, week |-> 0]
  /\ ats = AtsIdle
  /\ call = NoCall
  /\ run = 1
  /\ http = 0
  /\ non200 = 0
  /\ fails = 0
  /\ calls = 0
  /\ complete_at_start = FALSE

\* Lines 137-167 on the answer of one week.
OddsFlatten ==
  /\ pc = "flatten"
  /\ \E with_key \in BOOLEAN : flat' = flatten(week_json, with_key)
  /\ pc' = IF flatten_raises(week_json) THEN "error" ELSE "flattened"
  /\ UNCHANGED << today, THIS_YEAR, THIS_WEEK, season_year, schedule_data, odds_data,
                  scores_data, current_week_csv, ats_json, old, ats, call,
                  run, http, non200, fails, calls, complete_at_start,
                  week_json >>

SpecFlatten == InitFlatten /\ [][OddsFlatten]_vars

\* ------------------------------------------------- the Cache Writers on their own
InitWriter ==
  /\ today = NoDate
  /\ THIS_YEAR \in WriterYears
  /\ THIS_WEEK \in WriterWeeks
  /\ season_year = THIS_YEAR
  /\ schedule_data = {}
  /\ odds_data = {}
  /\ scores_data = {}
  /\ current_week_csv = NoFile
  /\ ats_json = 0
  /\ pc = "writer"
  /\ old = [i |-> 1, week |-> 0]
  /\ ats = AtsIdle
  /\ call = NoCall
  /\ run = 1
  /\ http = 0
  /\ non200 = 0
  /\ fails = 0
  /\ calls = 0
  /\ complete_at_start = FALSE
  /\ week_json = << >>
  /\ flat = NotFlattened

WriterSeasons == {SeasonId(y, t) : y \in WriterYears, t \in SeasonTypes}

\* cache_odds_data(season) called with any SeasonId.
CallOdds ==
  /\ pc = "writer"
  /\ calls < MaxCalls
  /\ \E season \in WriterSeasons :
       \E failing \in Failing(odds_week_range(season)) :
         cache_odds_data(season, failing)
  /\ calls' = calls + 1
  /\ UNCHANGED << today, THIS_YEAR, THIS_WEEK, season_year, schedule_data, ats_json,
                  pc, old, ats, run, complete_at_start, week_json, flat >>

\* cache_scores_data(season) called with any SeasonId.
CallScores ==
  /\ pc = "writer"
  /\ calls < MaxCalls
  /\ \E season \in WriterSeasons :
       \E failing \in Failing(scores_week_range(season)) :
         cache_scores_data(season, failing)
  /\ calls' = calls + 1
  /\ UNCHANGED << today, THIS_YEAR, THIS_WEEK, season_year, schedule_data, ats_json,
                  pc, old, ats, run, complete_at_start, week_json, flat >>

NextWriter == CallOdds \/ CallScores

SpecWriter == InitWriter /\ [][NextWriter]_vars

\* ----------------------------------------------------- cache_ats_data alone
\* cache_ats_data(current_season_type, season_year) called on any cache: the
\* odds files of the season year that a window can reach, and the
\* current_week.csv slot as a run of the Driver leaves it.  The caches hold
\* enough regular-season weeks for a window to fill up before or inside the
\* preseason.
AtsTypes == {"PRE", "REG", "POST"}
RegCaches == {{}, {1}, {1, 2}, {18}, 11 .. 18, RegFirstWeek .. RegStopWeek}
PreCaches == SUBSET (PreFirstWeek .. PreLastWeek)
PostCaches == {{}, {1}}
AtsCaches(year) ==
  { {<<SeasonId(year, "REG"), w>> : w \in reg}
      \cup {<<SeasonId(year, "PRE"), w>> : w \in pre}
      \cup {<<SeasonId(year, "POST"), w>> : w \in post} :
    reg \in RegCaches, pre \in PreCaches, post \in PostCaches }

InitAts ==
  /\ today = NoDate
  /\ THIS_YEAR \in Years
  /\ THIS_WEEK \in CurrentWeeks
  /\ season_year = THIS_YEAR
  /\ schedule_data = {}
  /\ odds_data \in AtsCaches(season_year)
  /\ scores_data = {}
  /\ current_week_csv \in
       {NoFile, [season |-> season_type_reg, week |-> THIS_WEEK, run |-> 1]}
  /\ ats_json = 0
  /\ pc = "ats_for"
  /\ old = [i |-> 1, week |-> 0]
  /\ \E type \in AtsTypes, ew \in CurrentWeeks :
       ats = ats_locals(SeasonId(season_year, type), ew)
  /\ call = NoCall
  /\ run = 1
  /\ http = 0
  /\ non200 = 0
  /\ fails = 0
  /\ calls = 0
  /\ complete_at_start = FALSE
  /\ week_json = << >>
  /\ flat = NotFlattened

NextAts == AtsWeek \/ AtsSwitch \/ AtsDump

SpecAts == InitAts /\ [][NextAts]_vars

\* ------------------------------------------------- the calendar fallback
\* The dates of the fallback, as datetime counts them.
FallbackYears == 2023 .. 2025
September == 9
Thursday == 3

is_leap(year) ==
  year % 4 = 0 /\ (year % 100 # 0 \/ year % 400 = 0)

days_in_month(year, month) ==
  IF month = 2 THEN (IF is_leap(year) THEN 29 ELSE 28)
  ELSE IF month \in {4, 6, 9, 11} THEN 30 ELSE 31

RECURSIVE days_before_month(_, _)
days_before_month(year, month) ==
  IF month = 1 THEN 0
  ELSE days_before_month(year, month - 1) + days_in_month(year, month - 1)

days_before_year(year) ==
  LET y == year - 1
  IN  y * 365 + (y \div 4) - (y \div 100) + (y \div 400)

\* date.toordinal(): the day number, 0001-01-01 being day 1.
toordinal(date) ==
  days_before_year(date.year) + days_before_month(date.year, date.month)
    + date.day

\* date.weekday(): Monday is 0.
weekday(date) == (toordinal(date) + 6) % 7

Dates ==
  {d \in [year : FallbackYears, month : 1 .. 12, day : 1 .. 31] :
     d.day <= days_in_month(d.year, d.month)}

\* Lines 27-30: the season year when the endpoint does not answer 200.
fallback_season_year(date) ==
  IF date.month >= 2 THEN date.year ELSE date.year - 1

\* Lines 49-51: the first Thursday on or after 1 September of `year`.
start_of_season(year) ==
  LET day == CHOOSE d \in 1 .. 7 :
               weekday([year |-> year, month |-> September, day |-> d])
                 = Thursday
  IN  [year |-> year, month |-> September, day |-> day]

\* Line 53: (today_date - start).days // 7, a floor division.
weeks_passed(date, start) == (toordinal(date) - toordinal(start)) \div 7

\* Lines 45-54: the week when the endpoint does not answer 200.
fallback_week(date) ==
  weeks_passed(date, start_of_season(date.year)) + 1

InitResolve ==
  /\ today \in Dates
  /\ THIS_YEAR = 0
  /\ THIS_WEEK = 0
  /\ season_year = 0
  /\ schedule_data = {}
  /\ odds_data = {}
  /\ scores_data = {}
  /\ current_week_csv = NoFile
  /\ ats_json = 0
  /\ pc = "resolve"
  /\ old = [i |-> 1, week |-> 0]
  /\ ats = AtsIdle
  /\ call = NoCall
  /\ run = 1
  /\ http = 0
  /\ non200 = 0
  /\ fails = 0
  /\ calls = 0
  /\ complete_at_start = FALSE
  /\ week_json = << >>
  /\ flat = NotFlattened

\* Lines 110-111 and 309 on a day when neither endpoint answers 200.
ResolveFallback ==
  /\ pc = "resolve"
  /\ THIS_YEAR' = fallback_season_year(today)
  /\ THIS_WEEK' = fallback_week(today)
  /\ season_year' = fallback_season_year(today)
  /\ pc' = "resolved"
  /\ UNCHANGED << today, schedule_data, odds_data, scores_data,
                  current_week_csv, ats_json, old, ats, call, run, http,
                  non200, fails, calls, complete_at_start, week_json, flat >>

SpecResolve == InitResolve /\ [][ResolveFallback]_vars

\* ======================================================================
\* Properties
\* ======================================================================
OldSeasons == {seasons_to_cache[i] : i \in 1 .. Len(seasons_to_cache)}
BackfillPcs == {"old_schedule", "old_odds", "old_scores"}

\* The dated files a Cache Writer invocation wrote.
Written(c) ==
  {<<c.season, c.log[i].week>> :
     i \in {j \in 1 .. Len(c.log) : c.log[j].file = "dated"}}

LogWeeks(log) == [i \in 1 .. Len(log) |-> log[i].week]

\* range(lo, stop) as the sequence of its weeks.
Ascending(lo, stop) ==
  IF stop <= lo THEN << >> ELSE [i \in 1 .. (stop - lo) |-> lo + i - 1]

\* C1: when every schedule, odds and scores file cache_old_data checks for
\* exists as the run starts, cache_old_data issues no HTTP request: the
\* request count is still 0 while it runs and when it has returned.
C1_IdempotentBackfill ==
  (complete_at_start /\ pc \in BackfillPcs \cup {"reg_schedule"}) => http = 0

\* C1 witness: a backfill that started on a complete cache has returned.
C1_Witness ==
  complete_at_start /\ pc = "reg_schedule" /\ run > 1 /\ http = 0

\* C2: when cache_old_data has returned from a run in which every request
\* answered 200, every schedule file and every weekly odds and scores file of
\* the listed seasons exists, whatever THIS_YEAR and THIS_WEEK are.
C2_AllFilesAfterBackfill ==
  (pc = "reg_schedule" /\ non200 = 0) => AllTargetsPresent

\* C3 as stated: a dated odds or scores file that exists (it was written for
\* a completed week of a listed season) is not written again by any step.
C3_NeverOverwritten ==
  [][/\ call'.kind = "odds" /\ call'.season \in OldSeasons
        => Written(call') \cap odds_data = {}
     /\ call'.kind = "scores" /\ call'.season \in OldSeasons
        => Written(call') \cap scores_data = {}]_vars

\* Some weekly file of the listed season s is missing in the store.
SomeWeekMissing(s, store) ==
  \E w \in Range(old_week_range(s).lo, old_week_range(s).stop) :
    <<s, w>> \notin store

\* C3 amended: an existing dated odds (scores) file of a listed season other
\* than the season the Driver refreshes is written again only by a
\* whole-season refetch made while some weekly odds (scores) file of that
\* season is missing.
C3_RewrittenOnlyOnRefetch ==
  [][/\ ( /\ call'.kind = "odds"
          /\ call'.season \in OldSeasons \ {season_type_reg}
          /\ Written(call') \cap odds_data # {} )
        => SomeWeekMissing(call'.season, odds_data)
     /\ ( /\ call'.kind = "scores"
          /\ call'.season \in OldSeasons \ {season_type_reg}
          /\ Written(call') \cap scores_data # {} )
        => SomeWeekMissing(call'.season, scores_data)]_vars

\* C3 witness: in a run without any non-200 answer the odds check of a later
\* week has refetched the season and written its first week's file, which
\* the check of that week had found or fetched before.
C3_Witness ==
  /\ pc = "old_odds"
  /\ call.kind = "odds"
  /\ fails = 0
  /\ old.week - 1 > old_week_range(OldSeason).lo
  /\ <<OldSeason, old_week_range(OldSeason).lo>> \in Written(call)

\* C4, its safety half: a Driver run never ends with current_week.csv holding
\* data of another season or week than the in-progress week of the current
\* REG season, or data of an earlier run (stated for the runs in which the
\* resolver answered the same year each time it was asked).
C4_CurrentSlotIsCurrent ==
  (pc = "done" /\ season_year = THIS_YEAR /\ current_week_csv # NoFile)
    => current_week_csv =
         [season |-> season_type_reg, week |-> THIS_WEEK, run |-> run]

\* One writer step: the log of the invocation and its effect on the stores.
C5_Step ==
  LET c == call'
      r == IF c.kind = "odds" THEN odds_week_range(c.season)
           ELSE scores_week_range(c.season)
  IN  c.kind \in {"odds", "scores"} =>
        /\ LogWeeks(c.log) = Ascending(r.lo, r.stop)
        /\ \A i \in 1 .. Len(c.log) :
             LET key == <<c.season, c.log[i].week>>
             IN  IF c.log[i].status = OK
                 THEN c.log[i].file # "none"
                 ELSE /\ c.log[i].file = "none"
                      /\ c.kind = "odds" =>
                           /\ key \in odds_data' <=> key \in odds_data
                           /\ c.log[i].week = THIS_WEEK
                                => current_week_csv' = current_week_csv
                      /\ c.kind = "scores" =>
                           (key \in scores_data' <=> key \in scores_data)

C6_NoErrorPropagates ==
  (season_year = THIS_YEAR /\ ats.end_week = THIS_WEEK) => pc # "error"

\* C7: the weeks a Cache Writer requests are 0,1,2,3 for a PRE season,
\* 1,2,3,4 for a POST season and 1..17 for a REG season other than the
\* current one, whatever THIS_YEAR and THIS_WEEK are.
C7_WeekRanges ==
  call.kind \in {"odds", "scores"} =>
    /\ call.season.type = "PRE" => LogWeeks(call.log) = <<0, 1, 2, 3>>
    /\ call.season.type = "POST" => LogWeeks(call.log) = <<1, 2, 3, 4>>
    /\ (call.season.type = "REG" /\ call.season.year # THIS_YEAR)
         => LogWeeks(call.log) = [i \in 1 .. 17 |-> i]

\* C7 witness: the odds writer ran for 2024PRE while the current season is
\* another year's.
C7_Witness ==
  /\ call.kind = "odds"
  /\ call.season = SeasonId(2024, "PRE")
  /\ THIS_YEAR # 2024
  /\ THIS_WEEK = 3
  /\ Len(call.log) = 4

\* C8: for the REG season of the current year the odds writer requests
\* weeks 1..THIS_WEEK and the scores writer weeks 1..THIS_WEEK-1, never
\* week THIS_WEEK.
C8_CurrentSeasonRanges ==
  (call.season.type = "REG" /\ call.season.year = THIS_YEAR) =>
    /\ call.kind = "odds"
         => LogWeeks(call.log) = Ascending(1, THIS_WEEK + 1)
    /\ call.kind = "scores"
         => /\ LogWeeks(call.log) = Ascending(1, THIS_WEEK)
            /\ \A i \in 1 .. Len(call.log) : call.log[i].week # THIS_WEEK

\* C8 witness: the scores writer ran for the current REG season in week 3
\* and requested two weeks.
C8_Witness ==
  /\ call.kind = "scores"
  /\ call.season = SeasonId(THIS_YEAR, "REG")
  /\ THIS_WEEK = 3
  /\ Len(call.log) = 2

\* The game of the answer has a Consensus quote with a spread.
HasConsensusSpread(game) ==
  \E i \in 1 .. Len(game.PregameOdds) :
    /\ game.PregameOdds[i].Sportsbook = "Consensus"
    /\ game.PregameOdds[i].HomePointSpread # None

\* Its spread, in half-points.
SpreadOf(game) ==
  LET i == CHOOSE j \in 1 .. Len(game.PregameOdds) :
             /\ game.PregameOdds[j].Sportsbook = "Consensus"
             /\ game.PregameOdds[j].HomePointSpread # None
  IN  game.PregameOdds[i].HomePointSpread.v

\* C9: for a Final game with a Consensus home spread and both scores, the
\* persisted CoveredTeam is the home team when home score + spread > away
\* score, the away team when it is less, "Push" when they are equal.
C9_CoveredTeam ==
  pc = "flattened" =>
    \A i \in 1 .. Len(week_json) :
      LET g == week_json[i]
      IN  ( /\ g.Status = "Final"
            /\ HasConsensusSpread(g)
            /\ g.HomeTeamScore # None
            /\ g.AwayTeamScore # None )
          => LET home2 == 2 * g.HomeTeamScore.v + SpreadOf(g)
                 away2 == 2 * g.AwayTeamScore.v
             IN  flat.rows[i].CoveredTeam =
                   IF home2 > away2 THEN g.HomeTeamName
                   ELSE IF home2 < away2 THEN g.AwayTeamName
                   ELSE "Push"

\* C9 witness: a persisted week holds home 20, away 17, spread -3.5 with the
\* away team covering, and home 20, away 20, spread 0 with "Push".
C9_Witness ==
  /\ pc = "flattened"
  /\ \E i, j \in 1 .. Len(week_json) :
       /\ week_json[i].Status = "Final"
       /\ week_json[i].HomeTeamScore = Num(20)
       /\ week_json[i].AwayTeamScore = Num(17)
       /\ week_json[i].PregameOdds = << Quote("Consensus", Num(-7)) >>
       /\ flat.rows[i].CoveredTeam = "AWAY"
       /\ week_json[j].Status = "Final"
       /\ week_json[j].HomeTeamScore = Num(20)
       /\ week_json[j].AwayTeamScore = Num(20)
       /\ week_json[j].PregameOdds = << Quote("Consensus", Num(0)) >>
       /\ flat.rows[j].CoveredTeam = "Push"

\* C10: for a game whose status is not Final the persisted CoveredTeam is
\* "Pending", whatever its scores and quotes are.
C10_PendingUntilFinal ==
  pc = "flattened" =>
    \A i \in 1 .. Len(week_json) :
      week_json[i].Status # "Final" => flat.rows[i].CoveredTeam = "Pending"

\* C10 witness: a persisted game in progress with both scores and a
\* Consensus spread is "Pending".
C10_Witness ==
  /\ pc = "flattened"
  /\ \E i \in 1 .. Len(week_json) :
       /\ week_json[i].Status = "InProgress"
       /\ week_json[i].HomeTeamScore = Num(20)
       /\ week_json[i].AwayTeamScore = Num(17)
       /\ HasConsensusSpread(week_json[i])
       /\ flat.rows[i].CoveredTeam = "Pending"

\* C11: for a Final game without a Consensus quote, or with a null Consensus
\* home spread, or with a null home or away score, the CoveredTeam persisted
\* with its week is "No Data".
C11_NoData ==
  pc = "flattened" =>
    \A i \in 1 .. Len(week_json) :
      LET g == week_json[i]
      IN  ( /\ g.Status = "Final"
            /\ \/ ~HasConsensusSpread(g)
               \/ g.HomeTeamScore = None
               \/ g.AwayTeamScore = None )
          => flat.rows[i].CoveredTeam = "No Data"

\* C12: the Odds list of every persisted row holds only quotes of the six
\* accepted sportsbooks, each with exactly the twelve attributes of
\* columns_to_keep.
C12_OddsRetention ==
  pc = "flattened" =>
    \A i \in 1 .. Len(flat.rows) :
      flat.rows[i].Odds # NoOdds =>
        \A j \in 1 .. Len(flat.rows[i].Odds) :
          /\ flat.rows[i].Odds[j].Sportsbook \in accepted_books
          /\ flat.rows[i].Odds[j].columns = columns_to_keep

\* C17: when every game of a fetched week has pregame quotes and some game has
\* none from an accepted sportsbook, the week is persisted, with a null Odds
\* value for each such game, whatever the number of games in the week.
C17_NullOddsPersisted ==
  ( /\ pc # "flatten"
    /\ Len(week_json) > 0
    /\ \A i \in 1 .. Len(week_json) : Len(week_json[i].PregameOdds) > 0
    /\ \E i \in 1 .. Len(week_json) :
         filter_books(week_json[i].PregameOdds) = << >> )
  => /\ pc = "flattened"
     /\ \A i \in 1 .. Len(week_json) :
          filter_books(week_json[i].PregameOdds) = << >>
            => flat.rows[i].Odds = NoOdds

\* C16: while the ATS window is built, the week it started from is the
\* THIS_WEEK the writers compare against, and the season year of the Driver is
\* the THIS_YEAR resolved at load: year and week are resolved once per run.
C16_ResolvedOnce ==
  pc \in {"ats_for", "ats_switch", "ats_dump"} =>
    /\ ats.end_week = THIS_WEEK
    /\ season_year = THIS_YEAR

\* The (season_type, week) labels of the week-groups collected so far.
Labels == [i \in 1 .. Len(ats.weeks_data) |->
             << ats.weeks_data[i].season_type.type, ats.weeks_data[i].week >>]

\* C18: for every season type the walk of cache_ats_data comes to an end: when
\* the window of a season type falls short, the for loop is entered again
\* only for another season type, never for the same one.
C18_ShortWindowEnds ==
  [][ (pc = "ats_switch" /\ pc' = "ats_for")
        => ats'.current_season_type # ats.current_season_type ]_vars

\* C20: in a walk of cache_ats_data started with a REG season type (or a PRE
\* one), at every point: at most ten week-groups are collected, no
\* (season_type, week) pair is collected twice, every REG group comes before
\* every PRE group, and within a season type the weeks strictly descend.
C20_WalkInvariants ==
  ats.current_season_type.type \in {"REG", "PRE"} =>
    /\ Len(ats.weeks_data) <= AtsWindow
    /\ \A i, j \in 1 .. Len(ats.weeks_data) :
         i < j =>
           /\ Labels[i] # Labels[j]
           /\ Labels[i][1] = "PRE" => Labels[j][1] = "PRE"
           /\ Labels[i][1] = Labels[j][1] => Labels[i][2] > Labels[j][2]

\* A finished walk that filled the window with REG weeks and then PRE weeks.
C20_Witness ==
  /\ pc = "ats_dump"
  /\ Len(ats.weeks_data) = AtsWindow
  /\ Labels[1][1] = "REG"
  /\ Labels[2][1] = "REG"
  /\ Labels[Len(ats.weeks_data)][1] = "PRE"
  /\ Labels[Len(ats.weeks_data) - 1][1] = "PRE"

\* The odds entry the walk finds for a week of a season type of season_year:
\* the dated file, or the current_week.csv slot for the week THIS_WEEK.
HasEntry(type, week) ==
  \/ odds_exists(SeasonId(season_year, type), week)
  \/ THIS_WEEK = week /\ current_week_csv # NoFile

\* The current REG week is 2, and there are odds entries for the REG weeks so
\* far and for every week of the PRE season of the same year.
Week2Cache ==
  /\ THIS_WEEK = 2
  /\ \A w \in RegFirstWeek .. 2 : HasEntry("REG", w)
  /\ \A w \in PreFirstWeek .. PreLastWeek : HasEntry("PRE", w)
  /\ ats.current_season_type.type \in {"REG", "PRE"}

\* The walk has ended and its first week-group is REG 2: on a Week2Cache that
\* is a walk started at REG week 2.
Week2WalkEnded ==
  /\ Week2Cache
  /\ pc = "ats_dump"
  /\ Len(ats.weeks_data) > 0
  /\ Labels[1] = << "REG", 2 >>

\* C13 as stated: from REG week 2 with every odds entry present the summary
\* is REG 2, REG 1, PRE 3, PRE 2, PRE 1 and nothing else.
C13_FiveGroups ==
  Week2WalkEnded =>
    Labels = << << "REG", 2 >>, << "REG", 1 >>,
                << "PRE", 3 >>, << "PRE", 2 >>, << "PRE", 1 >> >>

\* C13, amended: from REG week 2 with every odds entry present the walk raises
\* no error and the summary is REG 2, REG 1, PRE 3, PRE 2, PRE 1, PRE 0, in
\* that order and nothing else: six week-groups.
C13_SixGroups ==
  /\ Week2Cache => pc # "error"
  /\ Week2WalkEnded =>
       Labels = << << "REG", 2 >>, << "REG", 1 >>, << "PRE", 3 >>,
                   << "PRE", 2 >>, << "PRE", 1 >>, << "PRE", 0 >> >>

C13_Witness == Week2WalkEnded /\ Len(ats.weeks_data) = 6

\* C19: every week-group of the ATS summary carries the results fetched for
\* the season type and week it is labelled with; stated here for the groups
\* labelled with the PRE season, which never carry the data the
\* current_week.csv slot holds for another season.
C19_GroupsCarryOwnWeek ==
  \A i \in 1 .. Len(ats.weeks_data) :
    ats.weeks_data[i].season_type.type = "PRE" =>
      /\ ats.weeks_data[i].results.season = ats.weeks_data[i].season_type
      /\ ats.weeks_data[i].results.week = ats.weeks_data[i].week
\* C14: in one backfill run the odds Cache Writer is invoked at most once for
\* a listed season: a step of the odds check that invokes it never follows a
\* step of the same check that invoked it for the same season.
C14_InvokedOncePerSeason ==
  [][ ~ ( /\ pc = "old_odds"
          /\ call.kind = "odds"
          /\ call.season = OldSeason
          /\ pc' = "old_odds"
          /\ call'.kind = "odds" ) ]_vars

\* C15: on the fallback path the resolved week is the number of complete
\* 7-day periods between the first Thursday of September of the resolved
\* season year and today, plus one.
C15_FallbackWeek ==
  pc = "resolved" =>
    THIS_WEEK = weeks_passed(today, start_of_season(THIS_YEAR)) + 1

====
